---- MODULE Spec2Model ----
(***************************************************************************)
(* Model of plugin.video.peertube: the rendition selection and the play    *)
(* flow of resources/lib/addon.py, the playback-lifecycle service of       *)
(* service.py, and the signal-gated play flow of the historical            *)
(* peertube.py.                                                            *)
(***************************************************************************)
EXTENDS Integers, Sequences, FiniteSets, TLC

----------------------------------------------------------------------------
(* Bounds                                                                  *)

\* resolutions (tiers) range over 0..MaxTier; 0 is PeerTube's audio-only id
MaxTier == 3
\* longest list of files (renditions) of one video
MaxLen == 3
\* most "torrent_information" signals in flight at once
MaxSignals == 1

Tiers == 0..MaxTier

----------------------------------------------------------------------------
(* Values.  Every value is a pair <<kind, id>> so that values of different *)
(* kinds can be compared.                                                  *)

None == <<"None", 0>>
\* a local variable that was never assigned (backup_url, addon.py:242)
Unbound == <<"unbound", 0>>
\* the exception raised when an unassigned local is read (addon.py:252)
UnboundLocalError == <<"UnboundLocalError", 0>>
\* media played by another add-on or player
Other == <<"other", 0>>
\* playlist URL of a live video
PlaylistUrl == <<"m3u8", 0>>

\* the empty string (torrent_f at initialisation, peertube.py:72)
EmptyStr == <<"", 0>>

\* torrentUrl of the i-th file of a video
TorrentUrl(i) == <<"url", i>>

\* "torrent://{}".format(quote_plus(torrent_url))
VfsUrl(u) == <<"torrent", u[2]>>

\* os.path.join(torrent_info["save_path"], torrent_info["files"][0]["path"])
TorrentFile(u) == <<"file", u[2]>>

\* the lists of distinct resolutions of length n
RECURSIVE TierLists(_)
TierLists(n) ==
    IF n = 0 THEN {<<>>}
    ELSE {Append(l, t) : l \in {k \in TierLists(n - 1) : Len(k) = n - 1},
                         t \in Tiers} \cup TierLists(n - 1)

DistinctTiers(l) == \A i, j \in 1..Len(l) : i # j => l[i] # l[j]

\* the "files" of a non-live video: URL/resolution pairs, resolutions distinct
FilesOf(l) == [i \in 1..Len(l) |-> [resolution |-> l[i], url |-> TorrentUrl(i)]]

RenditionLists == {FilesOf(l) : l \in {k \in TierLists(MaxLen) : DistinctTiers(k)}}

\* a live video has a single file with a URL and no resolution
LiveInfo == [is_live |-> TRUE, files |-> <<[url |-> PlaylistUrl]>>]

VideoInfos == {[is_live |-> FALSE, files |-> fs] : fs \in RenditionLists}
                  \cup {LiveInfo}

NoInfo == [is_live |-> FALSE, files |-> <<>>]

\* the videos of the instance browsed in the whole-system specification
Catalog ==
    {LiveInfo} \cup {[is_live |-> FALSE, files |-> FilesOf(l)] :
                        l \in {<<>>, <<0>>, <<2>>, <<1, 3>>, <<3, 0>>}}

----------------------------------------------------------------------------
(* PeerTubeAddon._get_url_with_resolution                                  *)

\* as ScanInit, with backup_url initialised like url
ScanInit_BackupNone ==
    [current_resolution |-> 0, higher_resolution |-> -1, url |-> None,
     backup_url |-> None, returned |-> FALSE, value |-> None]

ScanInit ==
    [current_resolution |-> 0, higher_resolution |-> -1, url |-> None,
     backup_url |-> Unbound, returned |-> FALSE, value |-> None]

\* as ScanStep, keeping the first lower resolution met
ScanStep_FirstLower(st, video, preferred) ==
    LET resolution == video.resolution IN
    IF st.returned THEN st
    ELSE IF resolution = preferred
      THEN [st EXCEPT !.returned = TRUE, !.value = video.url]
    ELSE IF resolution < preferred /\ resolution > 0 /\ st.url = None
      THEN [st EXCEPT !.url = video.url, !.current_resolution = resolution]
    ELSE IF resolution > preferred
            /\ (resolution < st.higher_resolution \/ st.higher_resolution = -1)
      THEN [st EXCEPT !.backup_url = video.url, !.higher_resolution = resolution]
    ELSE st

\* as ScanStep, without the branch of the exact match
ScanStep_NoExactMatch(st, video, preferred) ==
    LET resolution == video.resolution IN
    IF st.returned THEN st
    ELSE IF resolution < preferred /\ resolution > st.current_resolution
      THEN [st EXCEPT !.url = video.url, !.current_resolution = resolution]
    ELSE IF resolution > preferred
            /\ (resolution < st.higher_resolution \/ st.higher_resolution = -1)
      THEN [st EXCEPT !.backup_url = video.url, !.higher_resolution = resolution]
    ELSE st

\* as ScanStep, with every higher resolution replacing the alternative
ScanStep_HigherReplaced(st, video, preferred) ==
    LET resolution == video.resolution IN
    IF st.returned THEN st
    ELSE IF resolution = preferred
      THEN [st EXCEPT !.returned = TRUE, !.value = video.url]
    ELSE IF resolution < preferred /\ resolution > st.current_resolution
      THEN [st EXCEPT !.url = video.url, !.current_resolution = resolution]
    ELSE IF resolution > preferred
      THEN [st EXCEPT !.backup_url = video.url, !.higher_resolution = resolution]
    ELSE st

\* one iteration of the for loop
ScanStep(st, video, preferred) ==
    LET resolution == video.resolution IN
    IF st.returned THEN st
    ELSE IF resolution = preferred
      THEN [st EXCEPT !.returned = TRUE, !.value = video.url]
    ELSE IF resolution < preferred /\ resolution > st.current_resolution
      THEN [st EXCEPT !.url = video.url, !.current_resolution = resolution]
    ELSE IF resolution > preferred
            /\ (resolution < st.higher_resolution \/ st.higher_resolution = -1)
      THEN [st EXCEPT !.backup_url = video.url, !.higher_resolution = resolution]
    ELSE st

RECURSIVE Scan(_, _, _)
Scan(st, list, preferred) ==
    IF list = <<>> THEN st
    ELSE Scan(ScanStep(st, Head(list), preferred), Tail(list), preferred)

\* the result: [raised |-> FALSE, url |-> the URL returned] or
\* [raised |-> TRUE, url |-> the exception]
get_url_with_resolution(list_of_url_and_resolutions, preferred_res) ==
    LET st == Scan(ScanInit, list_of_url_and_resolutions, preferred_res) IN
    IF st.returned THEN [raised |-> FALSE, url |-> st.value]
    ELSE IF st.url = None
      THEN IF st.backup_url = Unbound
             THEN [raised |-> TRUE, url |-> UnboundLocalError]
             ELSE [raised |-> FALSE, url |-> st.backup_url]
    ELSE [raised |-> FALSE, url |-> st.url]

----------------------------------------------------------------------------
VARIABLES
    \* --- the add-on process (main.py, resources/lib/addon.py)
    pc,                    \* position of the add-on's run
    preferred_resolution,  \* PeerTubeAddon.preferred_resolution
    video_info,            \* local of _play_video
    url,                   \* result of _get_url_with_resolution
    fetches,               \* torrents opened by this run (xbmcvfs.File), in
                           \* the order of the calls
    seek,                  \* what torrent.seek() returned to this run:
                           \* "none" (not called), "ok" or "failed" (-1)
    played,                \* what this run handed to kodi.play, or None
    notifs,                \* notifications shown by this run
    sent,                  \* "torrent_information" signals sent by this run
    \* --- AddonSignals
    signals,               \* "torrent_information" signals in flight
    \* --- the service (service.py)
    registered,            \* the slot of update_torrent_info is registered
    torrent_url,           \* PeertubePlayer.torrent_url
    run_url,               \* PeertubePlayer.run_url
    playback_started,      \* PeertubePlayer.playback_started
    \* --- Kodi's player
    player,                \* [item, av, heard]: what is played, stream
                           \* started, and whether the service received the
                           \* signal of this playback before the playback's
                           \* first callback, and no other signal since
    \* --- history of the service's callbacks
    session,               \* torrent_url of the last signal received
    superseded,            \* the other torrent that was tracked when that
                           \* signal was received, None if there was none
    starts,                \* calls of onAVStarted since that signal (0, 1, many)
    stops,                 \* calls of onPlayBackStopped since that signal
    last,                  \* the last callback: its event, the state before
                           \* it, and the calls it made
    \* --- the historical add-on process (peertube.py)
    lpc,                   \* position of the run of PeertubeAddon.play_video
    play,                  \* PeertubeAddon.play
    torrent_f,             \* PeertubeAddon.torrent_f
    timeout,               \* local of play_video
    slot,                  \* play_video_continue is registered as a slot
    requested,             \* the URL this run sent in "start_download"
    nrequests,             \* "start_download" signals sent by this run
    resolved,              \* path given to xbmcplugin.setResolvedUrl, or None
    lnotifs,               \* notifications and dialogs shown by this run
    readyAt,               \* where the run was when play_video_continue ran
    \* --- the downloader of the historical service and its signals
    start_download,        \* "start_download" signals in flight
    downloading,           \* torrents whose metadata is being downloaded
    metadata_downloaded,   \* "metadata_downloaded" signals in flight
    \* --- the invocation of the add-on by Kodi (main, router, handlers)
    rpc,                   \* position of the invocation
    version,               \* the add-on that is installed: "current"
                           \* (main.py), "legacy" (peertube.py), "none" yet
    params,                \* the parameters of the call, a dict
    handlers,              \* the methods the router called, in order
    args,                  \* the arguments it passed to the first of them
    response,              \* the outcome of the request to the REST API
    rnotifs,               \* notifications and dialogs of this invocation
    listing,               \* the directory created in Kodi's UI: "none",
                           \* "empty" (created without item) or "items"
    escaped,               \* the exception that left the entry point
    preferred_instance     \* the setting "preferred_instance"

addonVars == <<pc, preferred_resolution, video_info, url, fetches, seek, played,
              notifs, sent>>
serviceVars == <<registered, torrent_url, run_url, playback_started>>
histVars == <<session, superseded, starts, stops, last>>
legacyVars == <<lpc, play, torrent_f, timeout, slot, requested, nrequests, resolved,
                lnotifs, readyAt, start_download, downloading,
                metadata_downloaded>>
routerVars == <<rpc, version, params, handlers, args, response, rnotifs,
               listing, escaped, preferred_instance>>
vars == <<addonVars, signals, serviceVars, player, histVars, legacyVars,
          routerVars>>

NoPlayer == [item |-> None, av |-> FALSE, heard |-> FALSE]

\* the parameters of a call without parameters: an empty dict
NoParams == [k \in {} |-> None]

\* params.get(key): None when the key is missing
Get(p, key) == IF key \in DOMAIN p THEN p[key] ELSE None

\* instances (host names) and identifiers of videos
Host(i) == <<"host", i>>
VideoId(i) == <<"id", i>>

\* the arguments of a handler
NoArgs == [start |-> None, video_id |-> None, instance |-> None]

\* a callback of the service: the event, the media it is about, the state of
\* the PeertubePlayer before it, the calls of pause_torrent it made (the
\* torrents paused), the dialogs it opened and the user's answer
Callback(ev, media, answer, pauses, prompts) ==
    [ev |-> ev, media |-> media, answer |-> answer,
     pre_url |-> torrent_url, pre_started |-> playback_started,
     heard |-> player.heard,
     pauses |-> pauses, prompts |-> prompts]

NoCallback ==
    [ev |-> "none", media |-> None, answer |-> FALSE,
     pre_url |-> None, pre_started |-> FALSE, heard |-> FALSE,
     pauses |-> <<>>, prompts |-> 0]

\* counting 0, 1, many
Bump(n) == IF n < 2 THEN n + 1 ELSE 2

Init ==
    /\ pc = "idle"
    /\ preferred_resolution = 0
    /\ video_info = NoInfo
    /\ url = None
    /\ fetches = <<>>
    /\ seek = "none"
    /\ played = None
    /\ notifs = {}
    /\ sent = {}
    /\ signals = <<>>
    /\ registered = FALSE
    /\ torrent_url = None
    /\ run_url = None
    /\ playback_started = FALSE
    /\ player = NoPlayer
    /\ session = None
    /\ superseded = None
    /\ starts = 0
    /\ stops = 0
    /\ last = NoCallback
    /\ lpc = "idle"
    /\ play = 0
    /\ torrent_f = EmptyStr
    /\ timeout = 0
    /\ slot = FALSE
    /\ requested = None
    /\ nrequests = 0
    /\ resolved = None
    /\ lnotifs = {}
    /\ readyAt = "never"
    /\ start_download = <<>>
    /\ downloading = {}
    /\ metadata_downloaded = <<>>
    /\ rpc = "idle"
    /\ version = "none"
    /\ params = NoParams
    /\ handlers = <<>>
    /\ args = NoArgs
    /\ response = "none"
    /\ rnotifs = {}
    /\ listing = "none"
    /\ escaped = "none"
    /\ preferred_instance = Host(0)

----------------------------------------------------------------------------
(* The add-on: one run per invocation by Kodi                              *)

\* a new PeerTubeAddon reads the settings and _play_video is called
NewRun(pref) ==
    /\ pc \in {"idle", "done", "crashed", "failed"}
    /\ pc' = "play_video"
    /\ preferred_resolution' = pref
    /\ video_info' = NoInfo
    /\ url' = None
    /\ fetches' = <<>>
    /\ seek' = "none"
    /\ played' = None
    /\ notifs' = {}
    /\ sent' = {}
    /\ UNCHANGED <<signals, serviceVars, player, histVars>>
    /\ UNCHANGED legacyVars

\* main(): a new PeerTubeAddon reads the settings, the router is called with
\* the action "play_video"
Main(pref) ==
    /\ NewRun(pref)
    /\ UNCHANGED routerVars

\* _play_video: video_info = self.peertube.get_video_info(video_id, instance).
\* The value is an input: "is_live" and "files" as _play_video reads them,
\* the files being the URL/resolution pairs that PeerTube.get_video_urls yields
GetVideoInfo(info) ==
    /\ pc = "play_video"
    /\ video_info' = info
    /\ pc' = "got_info"
    /\ UNCHANGED <<preferred_resolution, url, fetches, seek, played, notifs, sent,
                   signals, serviceVars, player, histVars>>
    /\ UNCHANGED legacyVars
    /\ UNCHANGED routerVars

\* kodi.play(url): xbmcplugin.setResolvedUrl hands the item to the player
KodiPlay(item) == [item |-> item, av |-> FALSE, heard |-> FALSE]

\* as PlayVideo, with a selection that lowers the preferred resolution for
\* the calls that follow
PlayVideo_LowersPreference ==
    /\ pc = "got_info"
    /\ IF video_info.is_live
         THEN /\ played' = video_info.files[1].url
              /\ player' = KodiPlay(video_info.files[1].url)
              /\ pc' = "done"
              /\ url' = url
              /\ UNCHANGED preferred_resolution
         ELSE LET r == get_url_with_resolution(video_info.files, preferred_resolution) IN
              /\ url' = r.url
              /\ pc' = IF r.raised THEN "crashed" ELSE "download"
              /\ preferred_resolution' = IF preferred_resolution > 0
                                            THEN preferred_resolution - 1
                                            ELSE preferred_resolution
              /\ UNCHANGED <<played, player>>
    /\ UNCHANGED <<video_info, fetches, seek, notifs, sent, signals,
                   serviceVars, histVars>>
    /\ UNCHANGED legacyVars
    /\ UNCHANGED routerVars

\* _play_video: a live video is played directly, otherwise the URL is selected
PlayVideo ==
    /\ pc = "got_info"
    /\ IF video_info.is_live
         THEN /\ played' = video_info.files[1].url
              /\ player' = KodiPlay(video_info.files[1].url)
              /\ pc' = "done"
              /\ url' = url
         ELSE LET r == get_url_with_resolution(video_info.files,
                                               preferred_resolution) IN
              /\ url' = r.url
              /\ pc' = IF r.raised THEN "crashed" ELSE "download"
              /\ UNCHANGED <<played, player>>
    /\ UNCHANGED <<preferred_resolution, video_info, fetches, seek, notifs, sent,
                   signals, serviceVars, histVars>>
    /\ UNCHANGED legacyVars
    /\ UNCHANGED routerVars

\* _download_and_play opening the torrent a second time when seek() failed
DownloadSeek_Retry(seek_ok) ==
    /\ pc = "download"
    /\ IF seek_ok
         THEN /\ fetches' = Append(fetches, VfsUrl(url))
              /\ seek' = "ok"
              /\ pc' = "seek_ok"
              /\ notifs' = notifs
         ELSE /\ fetches' = fetches \o <<VfsUrl(url), VfsUrl(url)>>
              /\ seek' = "failed"
              /\ pc' = "done"
              /\ notifs' = notifs \cup {"error_30421"}
    /\ UNCHANGED <<preferred_resolution, video_info, url, played, sent,
                   signals, serviceVars, player, histVars>>
    /\ UNCHANGED legacyVars
    /\ UNCHANGED routerVars

\* _download_and_play going on to play the video whatever seek() returned
DownloadSeek_PlayAnyway(seek_ok) ==
    /\ pc = "download"
    /\ fetches' = Append(fetches, VfsUrl(url))
    /\ seek' = IF seek_ok THEN "ok" ELSE "failed"
    /\ pc' = "seek_ok"
    /\ notifs' = notifs
    /\ UNCHANGED <<preferred_resolution, video_info, url, played, sent,
                   signals, serviceVars, player, histVars>>
    /\ UNCHANGED legacyVars
    /\ UNCHANGED routerVars

\* _download_and_play: open the torrent and wait in seek() for the initial
\* chunk; seek() returns -1 when the download failed
DownloadSeek(seek_ok) ==
    /\ pc = "download"
    /\ fetches' = Append(fetches, VfsUrl(url))
    /\ IF seek_ok
         THEN /\ seek' = "ok"
              /\ pc' = "seek_ok"
              /\ notifs' = notifs
         ELSE /\ seek' = "failed"
              /\ pc' = "done"
              /\ notifs' = notifs \cup {"error_30421"}
    /\ UNCHANGED <<preferred_resolution, video_info, url, played, sent,
                   signals, serviceVars, player, histVars>>
    /\ UNCHANGED legacyVars
    /\ UNCHANGED routerVars

\* _download_and_play: AddonSignals.sendSignal("torrent_information", ...)
SendSignal ==
    /\ pc = "seek_ok"
    /\ Len(signals) < MaxSignals
    /\ signals' = Append(signals, [torrent_url |-> VfsUrl(url),
                                   run_url |-> VfsUrl(url)])
    /\ sent' = sent \cup {VfsUrl(url)}
    /\ pc' = "signalled"
    /\ UNCHANGED <<preferred_resolution, video_info, url, fetches, seek, played,
                   notifs, serviceVars, player, histVars>>
    /\ UNCHANGED legacyVars
    /\ UNCHANGED routerVars

\* _download_and_play: kodi.play(torrent_file)
Play ==
    /\ pc = "signalled"
    /\ played' = TorrentFile(url)
    /\ player' = [KodiPlay(TorrentFile(url)) EXCEPT
                    !.heard = /\ session = VfsUrl(url)
                              /\ \A i \in 1..Len(signals) :
                                    signals[i].torrent_url # VfsUrl(url)]
    /\ pc' = "done"
    /\ UNCHANGED <<preferred_resolution, video_info, url, fetches, seek, notifs,
                   sent, signals, serviceVars, histVars>>
    /\ UNCHANGED legacyVars
    /\ UNCHANGED routerVars

----------------------------------------------------------------------------
(* The service                                                             *)

\* PeertubeService.run: AddonSignals.registerSlot(..., update_torrent_info)
ServiceRun ==
    /\ ~registered
    /\ registered' = TRUE
    /\ UNCHANGED <<addonVars, signals, torrent_url, run_url, playback_started,
                   player, histVars>>
    /\ UNCHANGED legacyVars
    /\ UNCHANGED routerVars

\* as update_torrent_info, keeping the torrent that is tracked already
update_torrent_info_KeepTracked(data) ==
    /\ IF torrent_url = None
         THEN /\ torrent_url' = data.torrent_url
              /\ run_url' = data.run_url
         ELSE UNCHANGED <<torrent_url, run_url>>
    /\ UNCHANGED playback_started
    /\ session' = data.torrent_url
    /\ superseded' = IF torrent_url \notin {None, data.torrent_url}
                        THEN torrent_url ELSE None
    /\ starts' = 0
    /\ stops' = 0
    /\ last' = Callback("signal", data.torrent_url, FALSE, <<>>, 0)

\* as update_torrent_info, pausing the torrent that the new one replaces
update_torrent_info_PausePrevious(data) ==
    /\ torrent_url' = data.torrent_url
    /\ run_url' = data.run_url
    /\ UNCHANGED playback_started
    /\ session' = data.torrent_url
    /\ superseded' = IF torrent_url \notin {None, data.torrent_url}
                        THEN torrent_url ELSE None
    /\ starts' = 0
    /\ stops' = 0
    /\ last' = Callback("signal", data.torrent_url, FALSE,
                        IF torrent_url \notin {None, data.torrent_url}
                          THEN <<torrent_url>> ELSE <<>>, 0)

\* PeertubePlayer.update_torrent_info(data)
update_torrent_info(data) ==
    /\ torrent_url' = data.torrent_url
    /\ run_url' = data.run_url
    /\ UNCHANGED playback_started
    /\ session' = data.torrent_url
    /\ superseded' = IF torrent_url \notin {None, data.torrent_url}
                        THEN torrent_url ELSE None
    /\ starts' = 0
    /\ stops' = 0
    /\ last' = Callback("signal", data.torrent_url, FALSE, <<>>, 0)

\* the player once the service has received the signal data: the signal is
\* the one of the playback when it is for the file that is played, and it
\* came before the playback's first callback when no stream has started
Hearing(data) ==
    IF player.item = TorrentFile(data.torrent_url)
      THEN [player EXCEPT !.heard = player.heard \/ ~player.av]
      ELSE [player EXCEPT !.heard = FALSE]

\* as DeliverSignal, handing the signal to update_torrent_info whether or not
\* the service has registered its slot
DeliverSignal_NoSlotTest ==
    /\ signals # <<>>
    /\ signals' = Tail(signals)
    /\ update_torrent_info(Head(signals))
    /\ player' = Hearing(Head(signals))
    /\ UNCHANGED <<addonVars, registered>>
    /\ UNCHANGED legacyVars
    /\ UNCHANGED routerVars

\* a signal in flight reaches the service; it is dropped when no slot is
\* registered
DeliverSignal ==
    /\ signals # <<>>
    /\ signals' = Tail(signals)
    /\ IF registered
         THEN /\ update_torrent_info(Head(signals))
              /\ player' = Hearing(Head(signals))
         ELSE UNCHANGED <<torrent_url, run_url, playback_started, histVars,
                          player>>
    /\ UNCHANGED <<addonVars, registered>>
    /\ UNCHANGED legacyVars
    /\ UNCHANGED routerVars

\* as onAVStarted, without setting the flag
onAVStarted_NoFlag(media) ==
    /\ UNCHANGED <<torrent_url, run_url, playback_started>>
    /\ starts' = Bump(starts)
    /\ UNCHANGED <<session, superseded, stops>>
    /\ last' = Callback("started", media, FALSE, <<>>, 0)

\* as onAVStarted, without the test of torrent_url
onAVStarted_NoTest(media) ==
    /\ playback_started' = TRUE
    /\ UNCHANGED <<torrent_url, run_url>>
    /\ starts' = Bump(starts)
    /\ UNCHANGED <<session, superseded, stops>>
    /\ last' = Callback("started", media, FALSE, <<>>, 0)

\* PeertubePlayer.onAVStarted; media is what Kodi is playing
onAVStarted(media) ==
    /\ IF torrent_url # None
         THEN playback_started' = TRUE
         ELSE UNCHANGED playback_started
    /\ UNCHANGED <<torrent_url, run_url>>
    /\ starts' = Bump(starts)
    /\ UNCHANGED <<session, superseded, stops>>
    /\ last' = Callback("started", media, FALSE, <<>>, 0)

\* as onPlayBackStopped, forgetting the torrent and leaving the flag set
onPlayBackStopped_KeepFlag(media, answer) ==
    /\ IF torrent_url # None
         THEN IF playback_started
                THEN /\ torrent_url' = None
                     /\ UNCHANGED playback_started
                     /\ last' = Callback("stopped", media, FALSE,
                                         <<torrent_url>>, 0)
                ELSE IF answer
                  THEN /\ torrent_url' = None
                       /\ playback_started' = FALSE
                       /\ last' = Callback("stopped", media, TRUE,
                                           <<torrent_url>>, 1)
                  ELSE /\ UNCHANGED <<torrent_url, playback_started>>
                       /\ last' = Callback("stopped", media, FALSE, <<>>, 1)
         ELSE /\ UNCHANGED <<torrent_url, playback_started>>
              /\ last' = Callback("stopped", media, FALSE, <<>>, 0)
    /\ UNCHANGED run_url
    /\ stops' = Bump(stops)
    /\ UNCHANGED <<session, superseded, starts>>

\* as onPlayBackStopped, forgetting the torrent whatever the answer
onPlayBackStopped_ResetAlways(media, answer) ==
    /\ IF torrent_url # None
         THEN /\ torrent_url' = None
              /\ playback_started' = FALSE
              /\ IF playback_started
                   THEN last' = Callback("stopped", media, FALSE,
                                         <<torrent_url>>, 0)
                   ELSE IF answer
                     THEN last' = Callback("stopped", media, TRUE,
                                           <<torrent_url>>, 1)
                     ELSE last' = Callback("stopped", media, FALSE, <<>>, 1)
         ELSE /\ UNCHANGED <<torrent_url, playback_started>>
              /\ last' = Callback("stopped", media, FALSE, <<>>, 0)
    /\ UNCHANGED run_url
    /\ stops' = Bump(stops)
    /\ UNCHANGED <<session, superseded, starts>>

\* PeertubePlayer.onPlayBackStopped; media is what Kodi was playing, answer
\* is the user's answer to the yes/no dialog if it is opened.
\* pause_torrent() is xbmcvfs.File(self.torrent_url).seek(-1)
onPlayBackStopped(media, answer) ==
    /\ IF torrent_url # None
         THEN IF playback_started
                THEN /\ torrent_url' = None
                     /\ playback_started' = FALSE
                     /\ last' = Callback("stopped", media, FALSE,
                                         <<torrent_url>>, 0)
                ELSE IF answer
                  THEN /\ torrent_url' = None
                       /\ playback_started' = FALSE
                       /\ last' = Callback("stopped", media, TRUE,
                                           <<torrent_url>>, 1)
                  ELSE /\ UNCHANGED <<torrent_url, playback_started>>
                       /\ last' = Callback("stopped", media, FALSE, <<>>, 1)
         ELSE /\ UNCHANGED <<torrent_url, playback_started>>
              /\ last' = Callback("stopped", media, FALSE, <<>>, 0)
    /\ UNCHANGED run_url
    /\ stops' = Bump(stops)
    /\ UNCHANGED <<session, superseded, starts>>

----------------------------------------------------------------------------
(* Kodi's player: it calls the callbacks of every xbmc.Player, whatever    *)
(* add-on started the playback                                             *)

\* another add-on or the user starts some other media
OtherPlay ==
    /\ player.item # Other
    /\ player' = KodiPlay(Other)
    /\ UNCHANGED <<addonVars, signals, serviceVars, histVars>>
    /\ UNCHANGED legacyVars
    /\ UNCHANGED routerVars

\* the played item has a video stream
AVStarted ==
    /\ player.item # None
    /\ ~player.av
    /\ player' = [player EXCEPT !.av = TRUE]
    /\ onAVStarted(player.item)
    /\ UNCHANGED <<addonVars, signals, registered>>
    /\ UNCHANGED legacyVars
    /\ UNCHANGED routerVars

\* the playback is stopped
PlayBackStopped(answer) ==
    /\ player.item # None
    /\ player' = NoPlayer
    /\ onPlayBackStopped(player.item, answer)
    /\ UNCHANGED <<addonVars, signals, registered>>
    /\ UNCHANGED legacyVars
    /\ UNCHANGED routerVars

----------------------------------------------------------------------------
(* The historical add-on (peertube.py): play_video waits for the signal    *)
(* "metadata_downloaded" of the downloader before it plays                 *)

newVars == <<addonVars, signals, serviceVars, player, histVars>>

\* the number of polls of play_video's waiting loop
PollLimit == 10

\* the torrent URLs that get_video_url may return
LegacyUrls == {TorrentUrl(i) : i \in 1..MaxLen}

\* the script ends: its slots disappear with it
ScriptEnd == slot' = FALSE

\* PeertubeAddon.__init__ (nothing to play), then play_video(torrent_url),
\* which sends "start_download"
LegacyNewRun(u, libtorrent_imported) ==
    /\ lpc \in {"idle", "done"}
    /\ play' = 0
    /\ torrent_f' = EmptyStr
    /\ timeout' = 0
    /\ resolved' = None
    /\ readyAt' = "never"
    /\ IF ~libtorrent_imported
         THEN /\ lnotifs' = {"dialog_libtorrent"}
              /\ requested' = None
              /\ nrequests' = 0
              /\ lpc' = "done"
              /\ ScriptEnd
              /\ UNCHANGED start_download
         ELSE /\ Len(start_download) < MaxSignals
              /\ lnotifs' = {}
              /\ requested' = u
              /\ nrequests' = 1
              /\ start_download' = Append(start_download, u)
              /\ lpc' = "sent"
              /\ UNCHANGED slot
    /\ UNCHANGED <<downloading, metadata_downloaded>>
    /\ UNCHANGED newVars

\* a new run: the router calls play_video(torrent_url)
play_video(u, libtorrent_imported) ==
    /\ LegacyNewRun(u, libtorrent_imported)
    /\ UNCHANGED routerVars

\* play_video: AddonSignals.registerSlot(..., play_video_continue); timeout = 0
register_slot ==
    /\ lpc = "sent"
    /\ slot' = TRUE
    /\ timeout' = 0
    /\ lpc' = "loop"
    /\ UNCHANGED <<play, torrent_f, requested, nrequests, resolved, lnotifs, readyAt,
                   start_download, downloading, metadata_downloaded>>
    /\ UNCHANGED newVars
    /\ UNCHANGED routerVars

\* as TimedOut, with the counter compared one poll too far
TimedOut_Late == timeout = PollLimit + 1

\* the condition under which the run goes on after the loop: the loop's
\* counter tells a timeout from a signal
TimedOut == timeout = PollLimit

\* as loop_test, sending "start_download" again after a first timeout and
\* waiting once more
loop_test_Retry ==
    /\ lpc = "loop"
    /\ IF play = 0 /\ timeout < PollLimit
         THEN /\ lpc' = "sleep"
              /\ UNCHANGED <<lnotifs, slot, timeout, nrequests, start_download>>
         ELSE IF TimedOut /\ nrequests < 2
           THEN /\ Len(start_download) < MaxSignals
                /\ start_download' = Append(start_download, requested)
                /\ nrequests' = nrequests + 1
                /\ timeout' = 0
                /\ lpc' = "loop"
                /\ UNCHANGED <<lnotifs, slot>>
           ELSE IF TimedOut
             THEN /\ lnotifs' = lnotifs \cup {"error_timeout"}
                  /\ lpc' = "done"
                  /\ ScriptEnd
                  /\ UNCHANGED <<timeout, nrequests, start_download>>
             ELSE /\ lpc' = "grace"
                  /\ UNCHANGED <<lnotifs, slot, timeout, nrequests,
                                 start_download>>
    /\ UNCHANGED <<play, torrent_f, requested, resolved, readyAt,
                   downloading, metadata_downloaded>>
    /\ UNCHANGED newVars
    /\ UNCHANGED routerVars

\* as loop_test, resolving the path as soon as the loop is left
loop_test_NoGrace ==
    /\ lpc = "loop"
    /\ IF play = 0 /\ timeout < PollLimit
         THEN /\ lpc' = "sleep"
              /\ UNCHANGED <<lnotifs, slot, resolved>>
         ELSE IF TimedOut
           THEN /\ lnotifs' = lnotifs \cup {"error_timeout"}
                /\ lpc' = "done"
                /\ ScriptEnd
                /\ UNCHANGED resolved
           ELSE /\ resolved' = torrent_f
                /\ lpc' = "done"
                /\ ScriptEnd
                /\ UNCHANGED lnotifs
    /\ UNCHANGED <<play, torrent_f, timeout, requested, nrequests, readyAt,
                   start_download, downloading, metadata_downloaded>>
    /\ UNCHANGED newVars
    /\ UNCHANGED routerVars

\* play_video: the test of the while loop, and what follows the loop
loop_test ==
    /\ lpc = "loop"
    /\ IF play = 0 /\ timeout < PollLimit
         THEN /\ lpc' = "sleep"
              /\ UNCHANGED <<lnotifs, slot>>
         ELSE IF TimedOut
           THEN /\ lnotifs' = lnotifs \cup {"error_timeout"}
                /\ lpc' = "done"
                /\ ScriptEnd
           ELSE /\ lpc' = "grace"
                /\ UNCHANGED <<lnotifs, slot>>
    /\ UNCHANGED <<play, torrent_f, timeout, requested, nrequests, resolved, readyAt,
                   start_download, downloading, metadata_downloaded>>
    /\ UNCHANGED newVars
    /\ UNCHANGED routerVars

\* play_video: xbmc.sleep(1000) returns; timeout += 1
sleep_end ==
    /\ lpc = "sleep"
    /\ timeout' = timeout + 1
    /\ lpc' = "loop"
    /\ UNCHANGED <<play, torrent_f, slot, requested, nrequests, resolved, lnotifs,
                   readyAt, start_download, downloading, metadata_downloaded>>
    /\ UNCHANGED newVars
    /\ UNCHANGED routerVars

\* play_video: xbmc.sleep(3000) returns; setResolvedUrl(path=self.torrent_f)
set_resolved_url ==
    /\ lpc = "grace"
    /\ resolved' = torrent_f
    /\ lpc' = "done"
    /\ ScriptEnd
    /\ UNCHANGED <<play, torrent_f, timeout, requested, nrequests, lnotifs, readyAt,
                   start_download, downloading, metadata_downloaded>>
    /\ UNCHANGED newVars
    /\ UNCHANGED routerVars

\* where the run is in its wait
WaitPosition ==
    IF lpc = "sleep" \/ (lpc = "loop" /\ timeout < PollLimit) THEN "wait"
    ELSE IF lpc = "loop" THEN "elapsed"
    ELSE lpc

\* PeertubeAddon.play_video_continue(data)
play_video_continue(data) ==
    /\ play' = 1
    /\ torrent_f' = data.file
    /\ readyAt' = IF readyAt = "never" /\ data.file = TorrentFile(requested)
                    THEN WaitPosition ELSE readyAt

\* the downloader receives "start_download" and starts the download
DownloaderStart ==
    /\ start_download # <<>>
    /\ start_download' = Tail(start_download)
    /\ downloading' = downloading \cup {Head(start_download)}
    /\ UNCHANGED <<lpc, play, torrent_f, timeout, slot, requested, nrequests, resolved,
                   lnotifs, readyAt, metadata_downloaded>>
    /\ UNCHANGED newVars
    /\ UNCHANGED routerVars

\* the downloader has the metadata of a torrent: it sends
\* "metadata_downloaded" with the path of the file
DownloaderReady(u) ==
    /\ u \in downloading
    /\ Len(metadata_downloaded) < MaxSignals
    /\ downloading' = downloading \ {u}
    /\ metadata_downloaded' = Append(metadata_downloaded,
                                     [file |-> TorrentFile(u)])
    /\ UNCHANGED <<lpc, play, torrent_f, timeout, slot, requested, nrequests, resolved,
                   lnotifs, readyAt, start_download>>
    /\ UNCHANGED newVars
    /\ UNCHANGED routerVars

\* a "metadata_downloaded" signal reaches the add-on's process; it is dropped
\* when no slot is registered
DeliverReady ==
    /\ metadata_downloaded # <<>>
    /\ metadata_downloaded' = Tail(metadata_downloaded)
    /\ IF slot
         THEN play_video_continue(Head(metadata_downloaded))
         ELSE UNCHANGED <<play, torrent_f, readyAt>>
    /\ UNCHANGED <<lpc, timeout, slot, requested, nrequests, resolved, lnotifs,
                   start_download, downloading>>
    /\ UNCHANGED newVars
    /\ UNCHANGED routerVars

----------------------------------------------------------------------------
(* The invocation of the add-on: main, the router, the handlers that list  *)
(* and search, and their requests to the REST API                          *)

\* the parameter sets of the URLs the add-on builds for itself
\* (build_kodi_url), the empty set of Kodi's UI, and an action of no handler
ParamSets ==
    {NoParams}
    \cup {[action |-> a, start |-> 0] :
             a \in {"browse_videos", "search_videos", "browse_instances"}}
    \cup {[action |-> "play_video", id |-> VideoId(1)],
          [action |-> "play_video", id |-> VideoId(1), instance |-> Host(1)],
          [action |-> "select_instance", url |-> Host(1)],
          [action |-> "unknown"]}

\* what a request to the REST API can meet: a page with items, a valid
\* answer without item, an HTTP error whose JSON body has the error's
\* details, one whose JSON body has none, one whose body is not JSON, and no
\* answer at all (connection error, time-out)
Failures == {"http_error", "http_error_no_details", "http_error_not_json",
             "network_error"}
Outcomes == {"items", "no_item"} \cup Failures

\* values of Python: None, and the dict of a JSON answer with its "total"
NoneValue == [kind |-> "None", keys |-> {}, total |-> 0]
ResponseJson(o) ==
    [kind |-> "dict", keys |-> {"total", "data"},
     total |-> IF o = "items" THEN MaxLen ELSE 0]

\* "not x" of Python: true of None and of an empty dict
Not(x) == x.kind = "None" \/ x.keys = {}

\* PeerTube._request and list_instances: the exception raised if any, the
\* notification shown, the value returned
Request(o) ==
    IF o = "network_error"
      THEN [raised |-> "ConnectionError", notif |-> {}, json |-> NoneValue]
    ELSE IF o = "http_error_not_json"
      THEN [raised |-> "ValueError", notif |-> {}, json |-> NoneValue]
    ELSE IF o = "http_error"
      THEN [raised |-> "HTTPError", notif |-> {"request_error_details"},
            json |-> NoneValue]
    ELSE IF o = "http_error_no_details"
      THEN [raised |-> "HTTPError", notif |-> {"request_error_default"},
            json |-> NoneValue]
    ELSE [raised |-> "none", notif |-> {}, json |-> ResponseJson(o)]

\* PeertubeAddon.query_peertube of the historical add-on
query_peertube(o) ==
    IF o = "network_error"
      THEN [raised |-> "ConnectionError", notif |-> {}, json |-> NoneValue]
    ELSE IF o = "http_error_not_json"
      THEN [raised |-> "ValueError", notif |-> {}, json |-> NoneValue]
    ELSE IF o \in {"http_error", "http_error_no_details"}
      THEN [raised |-> "HTTPError", notif |-> {"communication_error"},
            json |-> NoneValue]
    ELSE IF ResponseJson(o).total = 0
      THEN [raised |-> "none", notif |-> {}, json |-> NoneValue]
    ELSE [raised |-> "none", notif |-> {}, json |-> ResponseJson(o)]

\* the directory created from a JSON answer
Directory(json) == IF json.total = 0 THEN "empty" ELSE "items"

\* as Route, with the home page as the last branch of the chain of tests
Route_HomeAsDefault(p) ==
    IF p # NoParams /\ p.action = "browse_videos"
      THEN [handlers |-> <<"_browse_videos">>,
            args |-> [NoArgs EXCEPT !.start = p.start], next |-> "request"]
    ELSE IF p # NoParams /\ p.action = "search_videos"
      THEN [handlers |-> <<"_search_videos">>,
            args |-> [NoArgs EXCEPT !.start = p.start], next |-> "input"]
    ELSE IF p # NoParams /\ p.action = "browse_instances"
      THEN [handlers |-> <<"_browse_instances">>,
            args |-> [NoArgs EXCEPT !.start = p.start], next |-> "request"]
    ELSE IF p # NoParams /\ p.action = "play_video"
      THEN [handlers |-> <<"_play_video">>,
            args |-> [NoArgs EXCEPT !.video_id = Get(p, "id"),
                                    !.instance = Get(p, "instance")],
            next |-> "play"]
    ELSE IF p # NoParams /\ p.action = "select_instance"
      THEN [handlers |-> <<"_select_instance">>, args |-> NoArgs,
            next |-> "done"]
    ELSE [handlers |-> <<"_home_page">>, args |-> NoArgs, next |-> "done"]

\* PeerTubeAddon.router: the method called for the parameters, its
\* arguments, and where the invocation is after the call
Route(p) ==
    IF p = NoParams
      THEN [handlers |-> <<"_home_page">>, args |-> NoArgs, next |-> "done"]
    ELSE IF p.action = "browse_videos"
      THEN [handlers |-> <<"_browse_videos">>,
            args |-> [NoArgs EXCEPT !.start = p.start], next |-> "request"]
    ELSE IF p.action = "search_videos"
      THEN [handlers |-> <<"_search_videos">>,
            args |-> [NoArgs EXCEPT !.start = p.start], next |-> "input"]
    ELSE IF p.action = "browse_instances"
      THEN [handlers |-> <<"_browse_instances">>,
            args |-> [NoArgs EXCEPT !.start = p.start], next |-> "request"]
    ELSE IF p.action = "play_video"
      THEN [handlers |-> <<"_play_video">>,
            args |-> [NoArgs EXCEPT !.video_id = Get(p, "id"),
                                    !.instance = Get(p, "instance")],
            next |-> "play"]
    ELSE IF p.action = "select_instance"
      THEN [handlers |-> <<"_select_instance">>, args |-> NoArgs,
            next |-> "done"]
    ELSE [handlers |-> <<>>, args |-> NoArgs, next |-> "done"]

\* no invocation is running
Quiet ==
    \/ rpc \in {"idle", "done", "crashed"}
    \/ rpc = "play" /\ version = "current"
          /\ pc \in {"done", "crashed", "failed"}
    \/ rpc = "play" /\ version = "legacy" /\ lpc = "done"

\* main(argv): a new PeerTubeAddon, then router(params) up to the first
\* request or dialog of the handler; _home_page and _select_instance have
\* none and are complete
Router(p, pref) ==
    /\ version \in {"none", "current"}
    /\ Quiet
    /\ version' = "current"
    /\ params' = p
    /\ response' = "none"
    /\ escaped' = "none"
    /\ LET r == Route(p) IN
       /\ handlers' = r.handlers
       /\ args' = r.args
       /\ rpc' = r.next
       /\ listing' = IF r.handlers = <<"_home_page">> THEN "items" ELSE "none"
       /\ IF r.handlers = <<"_select_instance">>
            THEN /\ preferred_instance' = p.url
                 /\ rnotifs' = {"info_30418"}
            ELSE /\ UNCHANGED preferred_instance
                 /\ rnotifs' = {}
       /\ IF r.next = "play"
            THEN NewRun(pref)
            ELSE /\ UNCHANGED <<addonVars, signals, serviceVars, player,
                               histVars>>
                 /\ UNCHANGED legacyVars

\* _search_videos, search_videos: the input box; the handler returns when
\* the user cancels or enters nothing
InputBox(keywords) ==
    /\ rpc = "input"
    /\ rpc' = IF keywords THEN "request" ELSE "done"
    /\ UNCHANGED <<version, params, handlers, args, response, rnotifs,
                   listing, escaped, preferred_instance>>
    /\ UNCHANGED <<addonVars, signals, serviceVars, player, histVars>>
    /\ UNCHANGED legacyVars

\* _browse_videos, _search_videos, _browse_instances from the request on
Respond(o) ==
    /\ rpc = "request"
    /\ version = "current"
    /\ response' = o
    /\ LET r == Request(o) IN
       IF r.raised # "none"
         THEN /\ rnotifs' = rnotifs \cup r.notif
              /\ escaped' = r.raised
              /\ rpc' = "crashed"
              /\ UNCHANGED listing
         ELSE IF handlers = <<"_search_videos">> /\ Not(r.json)
           THEN /\ rnotifs' = rnotifs \cup {"warning_30410"}
                /\ rpc' = "done"
                /\ UNCHANGED <<listing, escaped>>
           ELSE /\ listing' = Directory(r.json)
                /\ rpc' = "done"
                /\ UNCHANGED <<rnotifs, escaped>>
    /\ UNCHANGED <<version, params, handlers, args, preferred_instance>>
    /\ UNCHANGED <<addonVars, signals, serviceVars, player, histVars>>
    /\ UNCHANGED legacyVars

\* _play_video: the request for the information of the video fails
GetVideoInfoFails(o) ==
    /\ rpc = "play"
    /\ version = "current"
    /\ pc = "play_video"
    /\ o \in Failures
    /\ response' = o
    /\ rnotifs' = rnotifs \cup Request(o).notif
    /\ escaped' = Request(o).raised
    /\ pc' = "failed"
    /\ UNCHANGED <<preferred_resolution, video_info, url, fetches, seek,
                   played, notifs, sent>>
    /\ UNCHANGED <<rpc, version, params, handlers, args, listing,
                   preferred_instance>>
    /\ UNCHANGED <<signals, serviceVars, player, histVars>>
    /\ UNCHANGED legacyVars

\* PeertubeAddon.router of the historical add-on
LegacyRoute(p) ==
    IF p = NoParams
      THEN [handlers |-> <<"main_menu">>, args |-> NoArgs, next |-> "done"]
    ELSE IF p.action = "browse_videos"
      THEN [handlers |-> <<"browse_videos">>,
            args |-> [NoArgs EXCEPT !.start = p.start], next |-> "request"]
    ELSE IF p.action = "search_videos"
      THEN [handlers |-> <<"search_videos">>,
            args |-> [NoArgs EXCEPT !.start = p.start], next |-> "input"]
    ELSE IF p.action = "browse_instances"
      THEN [handlers |-> <<"browse_instances">>,
            args |-> [NoArgs EXCEPT !.start = p.start], next |-> "request"]
    ELSE IF p.action = "play_video"
      THEN [handlers |-> <<"get_video_url">>,
            args |-> [NoArgs EXCEPT !.video_id = Get(p, "id"),
                                    !.instance = Get(p, "instance")],
            next |-> "request_video"]
    ELSE IF p.action = "select_instance"
      THEN [handlers |-> <<"select_instance">>, args |-> NoArgs,
            next |-> "done"]
    ELSE [handlers |-> <<>>, args |-> NoArgs, next |-> "done"]

\* the historical script: a new PeertubeAddon, then router(sys.argv[2]) up to
\* the first request or dialog of the handler
LegacyRouter(p, libtorrent_imported) ==
    /\ version \in {"none", "legacy"}
    /\ Quiet
    /\ version' = "legacy"
    /\ params' = p
    /\ response' = "none"
    /\ escaped' = "none"
    /\ LET r == LegacyRoute(p) IN
       /\ handlers' = r.handlers
       /\ args' = r.args
       /\ rpc' = r.next
       /\ listing' = IF r.handlers = <<"main_menu">> THEN "items" ELSE "none"
       /\ IF r.handlers = <<"select_instance">>
            THEN /\ preferred_instance' = p.url
                 /\ rnotifs' = {"info_instance_changed"}
            ELSE /\ UNCHANGED preferred_instance
                 /\ rnotifs' = IF r.handlers = <<"main_menu">>
                                    /\ ~libtorrent_imported
                                 THEN {"dialog_libtorrent"} ELSE {}
    /\ UNCHANGED <<addonVars, signals, serviceVars, player, histVars>>
    /\ UNCHANGED legacyVars

\* browse_videos, search_videos, browse_instances from the request on;
\* create_list reads lst['data']
LegacyRespond(o) ==
    /\ rpc = "request"
    /\ version = "legacy"
    /\ response' = o
    /\ LET r == query_peertube(o) IN
       IF r.raised # "none"
         THEN /\ rnotifs' = rnotifs \cup r.notif
              /\ escaped' = r.raised
              /\ rpc' = "crashed"
              /\ UNCHANGED listing
         ELSE IF handlers = <<"search_videos">> /\ Not(r.json)
           THEN /\ rnotifs' = rnotifs \cup {"warning_no_videos"}
                /\ rpc' = "done"
                /\ UNCHANGED <<listing, escaped>>
           ELSE IF r.json.kind = "None"
             THEN /\ escaped' = "TypeError"
                  /\ rpc' = "crashed"
                  /\ UNCHANGED <<rnotifs, listing>>
             ELSE /\ listing' = Directory(r.json)
                  /\ rpc' = "done"
                  /\ UNCHANGED <<rnotifs, escaped>>
    /\ UNCHANGED <<version, params, handlers, args, preferred_instance>>
    /\ UNCHANGED <<addonVars, signals, serviceVars, player, histVars>>
    /\ UNCHANGED legacyVars

\* the torrent URL that get_video_url returns for a video
TorrentOf(video_id) == TorrentUrl(video_id[2])

\* router, action "play_video": get_video_url queries the video and returns
\* the URL of a torrent, then play_video(url) is called
LegacyVideoResponse(o, libtorrent_imported) ==
    /\ rpc = "request_video"
    /\ version = "legacy"
    /\ o \in Failures \cup {"items"}
    /\ response' = o
    /\ LET r == query_peertube(o) IN
       IF r.raised # "none"
         THEN /\ rnotifs' = rnotifs \cup r.notif
              /\ escaped' = r.raised
              /\ rpc' = "crashed"
              /\ UNCHANGED handlers
              /\ UNCHANGED legacyVars
              /\ UNCHANGED newVars
         ELSE /\ handlers' = Append(handlers, "play_video")
              /\ rpc' = "play"
              /\ UNCHANGED <<rnotifs, escaped>>
              /\ LegacyNewRun(TorrentOf(args.video_id), libtorrent_imported)
    /\ UNCHANGED <<version, params, args, listing, preferred_instance>>

----------------------------------------------------------------------------
\* the add-on, the service and Kodi's player
Next ==
    \/ \E pref \in Tiers : Main(pref)
    \/ \E info \in Catalog : GetVideoInfo(info)
    \/ PlayVideo
    \/ \E seek_ok \in BOOLEAN : DownloadSeek(seek_ok)
    \/ SendSignal
    \/ Play
    \/ ServiceRun
    \/ DeliverSignal
    \/ OtherPlay
    \/ AVStarted
    \/ \E answer \in BOOLEAN : PlayBackStopped(answer)

Spec == Init /\ [][Next]_vars

\* the runs of the add-on alone, over every list of files
NextSelect ==
    \/ \E pref \in Tiers : Main(pref)
    \/ \E info \in VideoInfos : GetVideoInfo(info)
    \/ PlayVideo
    \/ \E seek_ok \in BOOLEAN : DownloadSeek(seek_ok)
    \/ SendSignal
    \/ Play
    \/ DeliverSignal

SpecSelect == Init /\ [][NextSelect]_vars

\* the historical add-on and the downloader
NextLegacy ==
    \/ \E u \in LegacyUrls, imported \in BOOLEAN : play_video(u, imported)
    \/ register_slot
    \/ loop_test
    \/ sleep_end
    \/ set_resolved_url
    \/ DownloaderStart
    \/ \E u \in LegacyUrls : DownloaderReady(u)
    \/ DeliverReady

SpecLegacy == Init /\ [][NextLegacy]_vars

\* the steps of the script of the historical add-on: once started the script
\* runs on, xbmc.sleep returns
ScriptStep == register_slot \/ loop_test \/ sleep_end \/ set_resolved_url

SpecLegacyFair == SpecLegacy /\ WF_vars(ScriptStep)

\* one installed version of the add-on, the current one or the historical
\* one, plays videos: the runs of the other version never start
NextPlay ==
    \/ \E pref \in Tiers : lpc = "idle" /\ Main(pref)
    \/ \E info \in Catalog : GetVideoInfo(info)
    \/ PlayVideo
    \/ \E seek_ok \in BOOLEAN : DownloadSeek(seek_ok)
    \/ SendSignal
    \/ Play
    \/ DeliverSignal
    \/ \E u \in LegacyUrls, imported \in BOOLEAN :
            pc = "idle" /\ play_video(u, imported)
    \/ register_slot
    \/ loop_test
    \/ sleep_end
    \/ set_resolved_url
    \/ DownloaderStart
    \/ \E u \in LegacyUrls : DownloaderReady(u)
    \/ DeliverReady

SpecPlay == Init /\ [][NextPlay]_vars

\* the invocations of one installed version of the add-on, with their
\* requests to the REST API
NextRouter ==
    \/ \E p \in ParamSets, pref \in Tiers : Router(p, pref)
    \/ \E keywords \in BOOLEAN : InputBox(keywords)
    \/ \E o \in Outcomes : Respond(o)
    \/ \E o \in Outcomes : GetVideoInfoFails(o)
    \/ \E info \in Catalog : GetVideoInfo(info)
    \/ PlayVideo
    \/ \E seek_ok \in BOOLEAN : DownloadSeek(seek_ok)
    \/ SendSignal
    \/ Play
    \/ DeliverSignal
    \/ \E p \in ParamSets, imported \in BOOLEAN : LegacyRouter(p, imported)
    \/ \E o \in Outcomes : LegacyRespond(o)
    \/ \E o \in Outcomes, imported \in BOOLEAN :
            LegacyVideoResponse(o, imported)
    \/ register_slot
    \/ loop_test
    \/ sleep_end
    \/ set_resolved_url
    \/ DownloaderStart
    \/ \E u \in LegacyUrls : DownloaderReady(u)
    \/ DeliverReady

SpecRouter == Init /\ [][NextRouter]_vars

----------------------------------------------------------------------------
(* Properties of the selection of the URL                                  *)

\* the list of files the URL was selected from
files == video_info.files

\* _play_video has just called _get_url_with_resolution
Selected == pc \in {"download", "crashed"}

Resolutions == {files[i].resolution : i \in 1..Len(files)}
Below == {t \in Resolutions : t < preferred_resolution}
Above == {t \in Resolutions : t > preferred_resolution}
UrlOf(t) == files[CHOOSE i \in 1..Len(files) : files[i].resolution = t].url
Max(S) == CHOOSE x \in S : \A y \in S : y <= x
Min(S) == CHOOSE x \in S : \A y \in S : x <= y

\* C1: when a file has the preferred resolution, its URL is returned,
\* wherever the file is in the list and whatever the other resolutions are
C1_ExactMatch ==
    Selected =>
        \A i \in 1..Len(files) :
            (files[i].resolution = preferred_resolution)
                => (pc = "download" /\ url = files[i].url)

\* the exact match is the last file, after a lower and a higher resolution
C1_Witness ==
    /\ pc = "download"
    /\ Len(files) = 3
    /\ files[1].resolution < preferred_resolution
    /\ files[2].resolution > preferred_resolution
    /\ files[3].resolution = preferred_resolution
    /\ url = files[3].url

\* C2: when no file has the preferred resolution and some resolution
\* (0 included) is below it, the URL of the highest resolution below the
\* preferred one is returned, however many resolutions are above
C2_BestBelow ==
    (Selected /\ preferred_resolution \notin Resolutions /\ Below # {})
        => (pc = "download" /\ url = UrlOf(Max(Below)))

\* C3: when the list is not empty and every resolution is above the
\* preferred one, the URL of the lowest resolution is returned
C3_BestAbove ==
    (Selected /\ files # <<>> /\ Resolutions = Above)
        => (pc = "download" /\ url = UrlOf(Min(Above)))

\* three resolutions above the preferred one, the lowest neither first nor
\* last
C3_Witness ==
    /\ pc = "download"
    /\ Len(files) = 3
    /\ Resolutions = Above
    /\ files[2].resolution < files[1].resolution
    /\ files[2].resolution < files[3].resolution
    /\ url = files[2].url

\* C4: for every list that is not empty, the selection returns the URL of
\* one of the files; with one file it returns the URL of that file
C4_Total ==
    (Selected /\ files # <<>>)
        => /\ pc = "download"
           /\ \E i \in 1..Len(files) : url = files[i].url
           /\ (Len(files) = 1 => url = files[1].url)

\* C5: on an empty list the selection fails with an exception that reaches
\* the caller; no torrent is opened and nothing is given to the player
C5_EmptyFails ==
    (/\ pc \in {"download", "seek_ok", "signalled", "done", "crashed"}
     /\ ~video_info.is_live
     /\ files = <<>>)
        => /\ pc = "crashed"
           /\ url = UnboundLocalError
           /\ fetches = <<>>
           /\ played = None
           /\ sent = {}

\* the run of _play_video on a video without files has ended
C5_Witness ==
    /\ pc = "crashed"
    /\ ~video_info.is_live
    /\ files = <<>>
    /\ url = UnboundLocalError

----------------------------------------------------------------------------
(* Properties of the service                                               *)

\* the event of the last callback is about the file of the torrent loc
Pertains(media, loc) == media = TorrentFile(loc)

Untracked == torrent_url = None /\ ~playback_started

\* C6: a signal for a torrent, then onAVStarted, then onPlayBackStopped:
\* the torrent of the signal is paused once and nothing is tracked any more
C6_StartThenStop ==
    (last.ev = "stopped" /\ session # None /\ starts = 1 /\ stops = 1)
        => (last.pauses = <<session>> /\ Untracked)

\* the file of the torrent was played, started and stopped
C6_Witness ==
    /\ last.ev = "stopped"
    /\ session # None
    /\ starts = 1
    /\ stops = 1
    /\ Pertains(last.media, session)
    /\ last.pauses = <<session>>
    /\ Untracked

\* C7: the first onPlayBackStopped after a signal, with no onAVStarted since
\* that signal, opens the yes/no dialog and pauses only on the answer yes
C7_StopBeforeStart ==
    (last.ev = "stopped" /\ session # None /\ starts = 0 /\ stops = 1)
        => /\ last.prompts = 1
           /\ (last.pauses # <<>> => last.answer)
           /\ (~last.answer => last.pauses = <<>>)

\* onPlayBackStopped was called while a torrent was tracked and the playback
\* had not started
StoppedInTracking ==
    last.ev = "stopped" /\ last.pre_url # None /\ ~last.pre_started

\* C8 as stated: after onPlayBackStopped in Tracking nothing is tracked
\* whatever the answer, and the torrent is paused only on the answer yes
C8_UntrackedWhateverAnswer ==
    StoppedInTracking
        => (Untracked /\ (last.pauses # <<>> => last.answer))

\* C8 amended: after onPlayBackStopped in Tracking the dialog was opened; on
\* the answer yes the torrent is paused and nothing is tracked any more, on
\* the answer no the torrent is not paused and is still tracked
C8_UntrackedOnYes ==
    StoppedInTracking
        => /\ last.prompts = 1
           /\ IF last.answer
                THEN last.pauses = <<last.pre_url>> /\ Untracked
                ELSE /\ last.pauses = <<>>
                     /\ torrent_url = last.pre_url
                     /\ ~playback_started

\* the user answered no and the torrent is still tracked
C8_Witness ==
    /\ StoppedInTracking
    /\ last.prompts = 1
    /\ ~last.answer
    /\ torrent_url = last.pre_url
    /\ last.pauses = <<>>

\* C9: onAVStarted and onPlayBackStopped for media other than the file of
\* the tracked torrent change nothing, pause nothing and open no dialog
C9_OtherMediaIgnored ==
    (/\ last.ev \in {"started", "stopped"}
     /\ last.pre_url # None
     /\ ~Pertains(last.media, last.pre_url))
        => /\ torrent_url = last.pre_url
           /\ playback_started = last.pre_started
           /\ last.pauses = <<>>
           /\ last.prompts = 0

----------------------------------------------------------------------------
(* Properties of the wait of play_video                                    *)

\* C10: when the signal for the requested torrent arrives during the wait
\* (the last sleep included), the run ends by giving the announced path to
\* the player and shows no timeout
C10_ReadyBeforeTimeout ==
    (lpc = "done" /\ readyAt = "wait")
        => (resolved = TorrentFile(requested)
            /\ "error_timeout" \notin lnotifs)

\* a run of play_video that sent "start_download" has ended and
\* play_video_continue was never called
EndedWithoutSignal == lpc = "done" /\ requested # None /\ play = 0

\* what holds of a wait without signal: the timeout is shown only after
\* PollLimit sleeps, and a run ended without signal made PollLimit sleeps,
\* showed the timeout and gave nothing to the player
C11_TimeoutOnly ==
    /\ ("error_timeout" \in lnotifs) => (timeout = PollLimit)
    /\ EndedWithoutSignal
         => /\ timeout = PollLimit
            /\ "error_timeout" \in lnotifs
            /\ resolved = None

\* C11: when no signal arrives the wait ends, after PollLimit sleeps and not
\* before, with the timeout error shown and nothing given to the player
C11_TimesOut ==
    /\ []C11_TimeoutOnly
    /\ (lpc = "sent") ~> (lpc = "done")

\* a run has waited PollLimit sleeps without signal and has shown the timeout
C11_Witness ==
    /\ EndedWithoutSignal
    /\ timeout = PollLimit
    /\ "error_timeout" \in lnotifs
    /\ resolved = None

\* C12: only a signal for the requested torrent ends the wait: after a
\* signal, torrent_f is the file of the requested torrent, and no other path
\* is given to the player
C12_OwnSignalOnly ==
    /\ (requested # None /\ play = 1) => (torrent_f = TorrentFile(requested))
    /\ (resolved # None) => (resolved = TorrentFile(requested))

Paused == {last.pauses[i] : i \in 1..Len(last.pauses)}

\* C14: the service tracks one torrent, the one of the last signal received:
\* right after a signal torrent_url is the signal's, later it is that torrent
\* or None; every call of pause_torrent is for that torrent, never for the
\* torrent it replaced.
C14_TracksLastSignal ==
    /\ (last.ev = "signal") => (torrent_url = session /\ session = last.media)
    /\ torrent_url \in {None, session}
    /\ Paused \subseteq {session}
    /\ superseded \notin Paused

\* a signal replaced a tracked torrent by another one, and the playback
\* that followed was stopped: the new torrent was paused
C14_Witness ==
    /\ superseded # None
    /\ session # superseded
    /\ last.ev = "stopped"
    /\ Paused = {session}

\* C15: a callback of the player received while no torrent is tracked does
\* nothing: after onAVStarted or onPlayBackStopped called with
\* torrent_url = None and playback_started = False, no torrent was paused,
\* no dialog was opened, and torrent_url and playback_started are as before.
C15_UntrackedNoOp ==
    (last.ev \in {"started", "stopped"} /\ last.pre_url = None
        /\ ~last.pre_started)
        => (last.pauses = <<>> /\ last.prompts = 0
            /\ torrent_url = None /\ ~playback_started)

\* a playback started and was stopped while no torrent was tracked
C15_Witness ==
    /\ last.ev = "stopped"
    /\ last.pre_url = None
    /\ ~last.pre_started
    /\ starts >= 1
    /\ torrent_url = None

\* C16: a run sends "start_download" once; when its wait timed out the run
\* has shown the error and ended, it has sent no second "start_download"
\* and has resolved no path.
C16_NoRetry ==
    /\ (requested # None) => (nrequests = 1)
    /\ ("error_timeout" \in lnotifs)
            => (lpc = "done" /\ nrequests = 1 /\ resolved = None)

\* the run timed out while the downloader was still fetching its torrent,
\* and no other request is on its way
C16_Witness ==
    /\ "error_timeout" \in lnotifs
    /\ lpc = "done"
    /\ requested \in downloading
    /\ start_download = <<>>
    /\ nrequests = 1

\* the run of the add-on whose seek() returned -1
C17_Failed ==
    (seek = "failed")
        => (pc = "done" /\ "error_30421" \in notifs
            /\ fetches = <<VfsUrl(url)>> /\ sent = {} /\ played = None)

\* the step in which seek() returns -1
C17_FailingStep ==
    (pc = "download" /\ seek' = "failed")
        => UNCHANGED <<signals, serviceVars, player, histVars>>

\* C17: when seek() returns -1 the run shows the error notification and
\* ends: the torrent was opened once, no "torrent_information" signal was
\* sent, nothing was played, and the step leaves the signals in flight, the
\* service's torrent_url and playback_started and the player as they were.
C17_SeekFailed == []C17_Failed /\ [][C17_FailingStep]_vars

\* seek() failed while the service tracked the torrent of an earlier run
C17_Witness ==
    /\ seek = "failed"
    /\ pc = "done"
    /\ "error_30421" \in notifs
    /\ torrent_url # None

\* the state of the session of the current run of play_video, read from the
\* fields of PeertubeAddon and from what the run reported
SessionState ==
    IF "error_timeout" \in lnotifs THEN "TimedOut"
    ELSE IF play = 1 THEN "Ready"
    ELSE IF lpc \in {"sent", "loop", "sleep"} THEN "Fetching"
    ELSE "Idle"

\* play_video is called: a new session begins
NewSession == \E u \in LegacyUrls, imported \in BOOLEAN : play_video(u, imported)

SessionMoves ==
    {<<"Idle", "Fetching">>, <<"Fetching", "Ready">>,
     <<"Fetching", "TimedOut">>}

C18_Step ==
    ~NewSession =>
        /\ \/ SessionState' = SessionState
           \/ <<SessionState, SessionState'>> \in SessionMoves
        /\ (SessionState \in {"Ready", "TimedOut"})
                => /\ torrent_f' = torrent_f
                   /\ (resolved' # resolved) => (resolved' = torrent_f)
        /\ (SessionState = "TimedOut") => (resolved' = None)

\* C18: the session of a run goes from Idle to Fetching and then to Ready
\* or to TimedOut, and no step changes a session that is Ready or TimedOut:
\* its state stays, the path of a Ready session stays the one announced, a
\* TimedOut session resolves no path whatever signal comes later.
C18_SessionStates == [][C18_Step]_vars

\* the run of the add-on played a live video
LivePlayed == pc = "done" /\ video_info.is_live

\* the live video is played from its playlist URL, without selection of a
\* resolution, without a torrent and without a signal to the service
C19_Direct ==
    LivePlayed
        => (played = video_info.files[1].url /\ url = None
            /\ fetches = <<>> /\ seek = "none" /\ sent = {})

\* C19: a live video is played directly from the URL of its playlist:
\* _get_url_with_resolution is not called, no torrent is opened, no
\* "torrent_information" signal is sent, and when the playback of the live
\* video is stopped later the service pauses no torrent.
C19_LiveBypass ==
    /\ C19_Direct
    /\ (last.ev = "stopped" /\ last.media = PlaylistUrl)
            => (last.pauses = <<>>)

\* the step of _play_video that calls _get_url_with_resolution
SelectStep == pc = "got_info" /\ pc' \in {"download", "crashed"}

\* what the call left, and what a second call gives in the state it left
C20_Step ==
    SelectStep =>
        LET again == get_url_with_resolution(video_info'.files,
                                             preferred_resolution') IN
        /\ preferred_resolution' = preferred_resolution
        /\ video_info' = video_info
        /\ again.url = url'
        /\ again.raised = (pc' = "crashed")

DroppedStep == signals # <<>> /\ signals' = Tail(signals) /\ ~registered

\* while the service has not registered its slot it tracks nothing and has
\* paused nothing, and the add-on's run that passed seek() has played the
\* file of its torrent
C21_NoSlot ==
    /\ (~registered)
            => (Untracked /\ session = None /\ last.pauses = <<>>)
    /\ (pc = "done" /\ seek = "ok") => (played = TorrentFile(url))
    /\ (pc = "signalled") => ENABLED Play

\* C21: a "torrent_information" signal sent while the service has no slot
\* registered is lost without effect: the signal is dropped with the state
\* of the service unchanged, the service tracks and pauses nothing, and the
\* add-on goes on and plays the file.
C21_SignalWithoutSlot == []C21_NoSlot /\ [][DroppedStep => UNCHANGED <<serviceVars, histVars>>]_vars

\* the add-on sent the signal and played the file, the signal was dropped,
\* the playback was stopped: nothing is tracked, nothing was paused
C21_Witness ==
    /\ ~registered
    /\ pc = "done"
    /\ sent # {}
    /\ signals = <<>>
    /\ played = TorrentFile(url)
    /\ last.ev = "stopped"
    /\ last.media = played
    /\ last.pauses = <<>>
    /\ torrent_url = None

----------------------------------------------------------------------------
(* Properties of the invocations and of the requests to the REST API       *)

\* the notifications of _request and list_instances
RequestErrors == {"request_error_details", "request_error_default"}

\* C22: when the request of an invocation of the current add-on failed (HTTP
\* error with or without decodable details, or no answer), no directory was
\* created, no torrent was opened and nothing was played, the user got the
\* error notification, and no exception left main.
C22_FailureReported ==
    (version = "current" /\ response \in Failures)
        => (/\ listing = "none"
            /\ (rpc = "play") => (fetches = <<>> /\ played = None)
            /\ rnotifs \cap RequestErrors # {}
            /\ escaped = "none")

\* an invocation that listed or searched got a valid answer without item
ZeroItems ==
    /\ rpc \in {"done", "crashed"}
    /\ response = "no_item"

Searched == handlers \in {<<"_search_videos">>, <<"search_videos">>}

\* C23: a valid answer without item is not a failure: after a search
\* without result the user got the no-result warning and no directory was
\* created, and after any listing or search without item no error
\* notification was shown and no exception left the entry point.
C23_NoResults ==
    ZeroItems
        => (/\ Searched
                => (rnotifs \cap {"warning_30410", "warning_no_videos"} # {}
                    /\ listing = "none")
            /\ rnotifs \cap (RequestErrors \cup {"communication_error"}) = {}
            /\ escaped = "none"
            /\ rpc = "done")

\* the steps of the run around xbmc.sleep(3000)
C24_Step ==
    /\ (resolved' # resolved /\ resolved' # None) => (lpc = "grace")
    /\ (lpc # "grace" /\ lpc' = "grace")
            => (lpc = "loop" /\ play = 1 /\ resolved = None)
    /\ ("error_timeout" \in lnotifs' /\ "error_timeout" \notin lnotifs)
            => (lpc = "loop" /\ lpc' = "done")

HandlerOf(v, action) ==
    IF action = "browse_videos"
      THEN IF v = "current" THEN <<"_browse_videos">> ELSE <<"browse_videos">>
    ELSE IF action = "search_videos"
      THEN IF v = "current" THEN <<"_search_videos">> ELSE <<"search_videos">>
    ELSE IF action = "browse_instances"
      THEN IF v = "current" THEN <<"_browse_instances">>
                            ELSE <<"browse_instances">>
    ELSE IF action = "select_instance"
      THEN IF v = "current" THEN <<"_select_instance">>
                            ELSE <<"select_instance">>
    ELSE IF action = "play_video"
      THEN IF v = "current" THEN <<"_play_video">>
                            ELSE <<"get_video_url", "play_video">>
    ELSE <<>>

\* s is the beginning of t
IsPrefix(s, t) == Len(s) <= Len(t) /\ s = SubSeq(t, 1, Len(s))

C25_Dispatched ==
    (version # "none")
        => IF params = NoParams
             THEN /\ handlers \in {<<"_home_page">>, <<"main_menu">>}
                  /\ listing = "items"
             ELSE /\ handlers # <<>> \/ HandlerOf(version, params.action) = <<>>
                  /\ IsPrefix(handlers, HandlerOf(version, params.action))
                  /\ (params.action = "play_video")
                        => (args.video_id = params.id
                            /\ args.instance = Get(params, "instance"))

\* the router is called
RouterStep ==
    \/ \E p \in ParamSets, pref \in Tiers : Router(p, pref)
    \/ \E p \in ParamSets, imported \in BOOLEAN : LegacyRouter(p, imported)

\* a call with an action that has no handler
C25_UnknownStep ==
    (RouterStep /\ params' = [action |-> "unknown"])
        => (/\ handlers' = <<>>
            /\ rpc' = "done"
            /\ rnotifs' = {}
            /\ listing' = "none"
            /\ UNCHANGED <<preferred_instance, addonVars, signals,
                           serviceVars, player, histVars, legacyVars>>)

\* C25: the router calls the handler of the action and no other: the home
\* page for a call without parameters, the handler that lists, searches,
\* selects the instance or plays for its action, with the id of the video
\* and the instance of the call (None without one) for "play_video"; for
\* an action without handler it calls nothing and changes nothing.
C25_Dispatch == []C25_Dispatched /\ [][C25_UnknownStep]_vars

\* the router called _play_video with the id and the instance of the call
C25_Witness ==
    /\ version = "current"
    /\ rpc = "play"
    /\ handlers = <<"_play_video">>
    /\ "instance" \in DOMAIN params
    /\ args.video_id = VideoId(1)
    /\ args.instance = Host(1)
    /\ pc = "play_video"

\* a "metadata_downloaded" signal for the torrent of the run leaves the bus
\* while the run is between its "start_download" and the end of its wait
OwnSignalDelivered ==
    /\ metadata_downloaded # <<>>
    /\ metadata_downloaded' = Tail(metadata_downloaded)
    /\ Head(metadata_downloaded).file = TorrentFile(requested)
    /\ lpc \in {"sent", "loop", "sleep"}

\* C26: no signal of readiness is lost: every "metadata_downloaded" signal
\* for the requested torrent that is delivered once the run has sent
\* "start_download" reaches play_video_continue and sets play to 1.
C26_NoLostSignal == [][OwnSignalDelivered => (slot /\ play' = 1)]_vars

\* the signal of a run is sent only after the download reached the seek
\* point, and the file is handed to the player only after the signal
SignalBeforePlay ==
    /\ sent # {} => seek = "ok"
    /\ (played # None /\ played = TorrentFile(url)) => VfsUrl(url) \in sent

\* C27: for a video that is not live the signal with the torrent URL and the
\* run URL is sent before the file is handed to the player and only when the
\* download reached the seek point, and when the service received that
\* signal before the first callback of the playback, every onAVStarted and
\* onPlayBackStopped of the playback finds the service tracking its torrent
C27_SignalThenPlay ==
    /\ SignalBeforePlay
    /\ (last.ev \in {"started", "stopped"} /\ last.heard)
         => Pertains(last.media, last.pre_url)

\* the three states of the PeertubePlayer
Tracking == torrent_url # None /\ ~playback_started

Started == torrent_url # None /\ playback_started

\* C28: playback_started is True only while a torrent is tracked; the
\* PeertubePlayer starts with no torrent and the flag False, and it is always
\* in one of Untracked, Tracking and Started
C28_PlaybackState ==
    /\ playback_started => torrent_url # None
    /\ last.ev = "none" => Untracked
    /\ Untracked \/ Tracking \/ Started
    /\ torrent_url = None \/ torrent_url[1] = "torrent"

\* the three states were gone through: a stop in Started left Untracked
C28_Witness ==
    /\ last.ev = "stopped"
    /\ last.pre_started
    /\ last.pre_url # None
    /\ Untracked

\* a step of the add-on's run, from the selection to kodi.play
AddonStep == addonVars' # addonVars

\* C29: pause_torrent is called only by onPlayBackStopped, at most once per
\* call: update_torrent_info and onAVStarted never call it, and no step of
\* the add-on's run (selection, seek, signal, kodi.play) calls it or writes
\* torrent_url or playback_started
C29_PauseOnlyOnStop ==
    /\ [](last.pauses # <<>> => last.ev = "stopped")
    /\ [](Len(last.pauses) <= 1)
    /\ [][AddonStep => UNCHANGED <<torrent_url, run_url, playback_started,
                                   last>>]_vars

\* a run handed its file to the player and the stop paused its torrent
C29_Witness ==
    /\ pc = "done"
    /\ played = TorrentFile(url)
    /\ last.ev = "stopped"
    /\ last.media = played
    /\ last.pauses = <<VfsUrl(url)>>

\* the orders of a list of n files
Orders(n) ==
    {p \in [1..n -> 1..n] : \A i, j \in 1..n : i # j => p[i] # p[j]}

Permuted(list, p) == [i \in 1..Len(list) |-> list[p[i]]]

\* C30: with distinct resolutions, _get_url_with_resolution gives the same
\* outcome (the URL returned or the exception raised) for every order of the
\* list of files, although the loop returns at the first exact match
C30_OrderIndependent ==
    Selected =>
        \A p \in Orders(Len(files)) :
            LET r == get_url_with_resolution(Permuted(files, p),
                                            preferred_resolution) IN
            /\ r.raised = (pc = "crashed")
            /\ r.url = url

\* the exact match is the first file, a lower and a higher resolution come
\* after it and are not looked at
C30_Witness ==
    /\ pc = "download"
    /\ Len(files) = 3
    /\ files[1].resolution = preferred_resolution
    /\ files[2].resolution < preferred_resolution
    /\ files[2].resolution > 0
    /\ files[3].resolution > preferred_resolution
    /\ url = files[1].url

====
